---- MODULE Spec2Model ----
(***************************************************************************)
(* A model of the cost model of the mongodb-d4 designer                    *)
(* (src/src/costmodel/costmodel.py, class CostModel) and of the search     *)
(* loop that uses it as its oracle.                                        *)
(*                                                                         *)
(* Numbers.  The Python code runs with `from __future__ import division`,  *)
(* so every `/` is a true division.  The model computes with exact         *)
(* rationals <<n, d>> (d > 0, kept in lowest terms), which is what the     *)
(* floating-point code computes up to rounding.                            *)
(***************************************************************************)
EXTENDS Integers, Sequences, FiniteSets, TLC

(***************************************************************************)
(* Exact rational arithmetic.                                              *)
(***************************************************************************)
Abs(x) == IF x < 0 THEN -x ELSE x

RECURSIVE Gcd(_, _)
Gcd(a, b) == IF b = 0 THEN a ELSE Gcd(b, a % b)

Norm(r) ==
    LET g == Gcd(Abs(r[1]), r[2])
    IN  IF r[1] = 0 THEN <<0, 1>> ELSE <<r[1] \div g, r[2] \div g>>

Rat(n) == <<n, 1>>
Frac(n, d) == Norm(<<n, d>>)
RAdd(a, b) == Norm(<<a[1] * b[2] + b[1] * a[2], a[2] * b[2]>>)
RSub(a, b) == Norm(<<a[1] * b[2] - b[1] * a[2], a[2] * b[2]>>)
RMul(a, b) ==
    LET x == Norm(<<a[1], b[2]>>)
        y == Norm(<<b[1], a[2]>>)
    IN  Norm(<<x[1] * y[1], x[2] * y[2]>>)
\* a / b for b > 0
RDiv(a, b) == RMul(a, <<b[2], b[1]>>)
RLeq(a, b) == a[1] * b[2] <= b[1] * a[2]
RLt(a, b) == a[1] * b[2] < b[1] * a[2]
\* math.ceil of a rational
Ceil(r) == IF r[1] % r[2] = 0 THEN r[1] \div r[2] ELSE (r[1] \div r[2]) + 1

Max(S) == CHOOSE x \in S : \A y \in S : y <= x

(***************************************************************************)
(* The state: the CostModel object (cm, the `self` of every method), the   *)
(* argument and the result of the last method call, and the call's name.   *)
(* randints is the sequence of values that rg.randint(1, 100) yields after *)
(* rg.seed('cost model coolness'): a fixed sequence, which the model does  *)
(* not know and so draws freely; cm.rg counts the values consumed so far.  *)
(***************************************************************************)
VARIABLES cm, design, call, ret, randints, lns

vars == <<cm, design, call, ret, randints, lns>>

(***************************************************************************)
(* The Design object the cost model questions.                             *)
(*   cols      the collections of the design                                *)
(*   shardKeys collection -> tuple of fields                                *)
(*   indexes   collection -> set of field tuples                            *)
(*   parent    collection -> embedding parent, or "None"                    *)
(***************************************************************************)
hasCollection(d, col) == col \in d.cols
getCollections(d) == d.cols
getParentCollection(d, col) == d.parent[col]
inShardKeyPattern(d, col, key) == \E i \in 1..Len(d.shardKeys[col]) : d.shardKeys[col][i] = key
getIndexesForCollection(d, col) == d.indexes[col]
hasIndex(d, col, keys) == keys \in d.indexes[col]

(***************************************************************************)
(* CostModel.__init__                                                      *)
(***************************************************************************)
SeededState == 0

\* the search has not been set up
LnsIdle == [ pc |-> "idle" ]

CostModelInit(workload, config, statistics) ==
    [ workload       |-> workload,
      weight_network |-> config.weight_network,
      weight_disk    |-> config.weight_disk,
      weight_skew    |-> config.weight_skew,
      nodes          |-> config.nodes,
      stats          |-> statistics,
      rg             |-> SeededState,
      max_memory     |-> config.max_memory * 1024 * 1024 * config.nodes,
      skew_segments  |-> config.skew_intervals - 1,
      address_size   |-> Frac(config.address_size, 4) ]

(***************************************************************************)
(* CostModel.guessNodes                                                    *)
(***************************************************************************)
\* math.floor in place of math.ceil
guessNodesFloor(d, collection, key) ==
    LET r == RMul(cm.stats[collection].fields[key].selectivity, Rat(cm.nodes))
    IN  r[1] \div r[2]

guessNodes(d, collection, key) ==
    Ceil(RMul(cm.stats[collection].fields[key].selectivity, Rat(cm.nodes)))

(***************************************************************************)
(* CostModel.partialNetworkCost: the walk over the sessions.               *)
(* A query is [collection, type, predicates]; predicates is the sequence   *)
(* of <<field, kind>> pairs in the dictionary's iteration order.           *)
(***************************************************************************)
\* lines 220-221 left out: a collection that is its own parent is treated
\* as any embedded collection
ProcessSkipsRoot(d, queries, i) ==
    LET q == queries[i]
        parent_col == getParentCollection(d, q.collection)
    IN  IF i = 1 THEN TRUE
        ELSE IF queries[i - 1].type # "select" \/ q.type # "select" THEN TRUE
        ELSE IF queries[i - 1].collection # parent_col THEN TRUE
        ELSE FALSE

\* line 222 with the comparison of the previous query's type inverted
ProcessInverted(d, queries, i) ==
    LET q == queries[i]
        parent_col == getParentCollection(d, q.collection)
    IN  IF i = 1 THEN TRUE
        ELSE IF parent_col = q.collection THEN TRUE
        ELSE IF queries[i - 1].type = "select" \/ q.type # "select" THEN TRUE
        ELSE IF queries[i - 1].collection # parent_col THEN TRUE
        ELSE FALSE

\* lines 216-225: is queries[i] processed, given the query before it?
Process(d, queries, i) ==
    LET q == queries[i]
        parent_col == getParentCollection(d, q.collection)
    IN  IF i = 1 THEN TRUE
        ELSE IF parent_col = q.collection THEN TRUE
        ELSE IF queries[i - 1].type # "select" \/ q.type # "select" THEN TRUE
        ELSE IF queries[i - 1].collection # parent_col THEN TRUE
        ELSE FALSE

\* lines 251-252 left out: a query without predicates adds nothing
ContributionNoPredicates(d, q) ==
    IF q.type = "insert" THEN 1
    ELSE IF Len(q.predicates) > 0
         THEN LET matching == { j \in 1..Len(q.predicates) :
                                  inShardKeyPattern(d, q.collection, q.predicates[j][1]) }
                  scan == (matching = {})
                  query_type == q.predicates[Max(matching)][2]
                  k == q.predicates[Len(q.predicates)][1]
              IN  IF ~scan
                  THEN IF query_type = "equality" THEN 0
                       ELSE guessNodes(d, q.collection, k)
                  ELSE cm.nodes
         ELSE 0

\* lines 229-252: what a processed query adds to result
Contribution(d, q) ==
    IF q.type = "insert" THEN 1
    ELSE IF Len(q.predicates) > 0
         THEN LET matching == { j \in 1..Len(q.predicates) :
                                  inShardKeyPattern(d, q.collection, q.predicates[j][1]) }
                  scan == (matching = {})
                  \* the loop leaves query_type at the last matching predicate's kind
                  \* and k at the last key iterated
                  query_type == q.predicates[Max(matching)][2]
                  k == q.predicates[Len(q.predicates)][1]
              IN  IF ~scan
                  THEN IF query_type = "equality" THEN 0
                       ELSE guessNodes(d, q.collection, k)
                  ELSE cm.nodes
         ELSE cm.nodes

\* lines 213-259: the body of the loop over a session's queries
QueryStep(d, queries, i, acc) ==
    IF hasCollection(d, queries[i].collection) /\ Process(d, queries, i)
    THEN [ worst_case  |-> acc.worst_case + cm.nodes,
           query_count |-> acc.query_count + 1,
           result      |-> acc.result + Contribution(d, queries[i]) ]
    ELSE acc

RECURSIVE WalkQueries(_, _, _, _)
WalkQueries(d, queries, i, acc) ==
    IF i > Len(queries) THEN acc
    ELSE WalkQueries(d, queries, i + 1, QueryStep(d, queries, i, acc))

RECURSIVE WalkSessions(_, _, _, _)
WalkSessions(d, sessions, j, acc) ==
    IF j > Len(sessions) THEN acc
    ELSE WalkSessions(d, sessions, j + 1, WalkQueries(d, sessions[j].queries, 1, acc))

NetworkTotals(d, sessions) ==
    WalkSessions(d, sessions, 1, [worst_case |-> 0, result |-> 0, query_count |-> 0])

partialNetworkCost(d, wrkld_sgmnt) ==
    LET acc == NetworkTotals(d, wrkld_sgmnt)
        cost == IF acc.worst_case = 0 THEN Rat(0)
                ELSE Frac(acc.result, acc.worst_case)
    IN  <<cost, acc.query_count>>

networkCost(d) == partialNetworkCost(d, cm.workload)[1]

(***************************************************************************)
(* CostModel.skewCost                                                      *)
(***************************************************************************)
\* line 184 left out when a segment is closed: the session that closes a
\* segment is added to no segment
SegmentStepDropping(s, offset, st) ==
    IF RLt(st.timer, Rat(s.endTime))
    THEN [ timer    |-> RAdd(st.timer, offset),
           segments |-> Append(st.segments, st.wl_seg),
           wl_seg   |-> <<>> ]
    ELSE [ st EXCEPT !.wl_seg = Append(st.wl_seg, s) ]

\* lines 176-185: the loop that cuts the sessions into segments.
\* st = [timer, wl_seg, segments]
SegmentStep(s, offset, st) ==
    IF RLt(st.timer, Rat(s.endTime))
    THEN [ timer    |-> RAdd(st.timer, offset),
           segments |-> Append(st.segments, st.wl_seg),
           wl_seg   |-> <<s>> ]
    ELSE [ st EXCEPT !.wl_seg = Append(st.wl_seg, s) ]

RECURSIVE SegmentLoop(_, _, _, _)
SegmentLoop(sessions, j, offset, st) ==
    IF j > Len(sessions) THEN st
    ELSE SegmentLoop(sessions, j + 1, offset, SegmentStep(sessions[j], offset, st))

\* lines 167-185, for a workload of length > 0
SkewSegments(sessions) ==
    LET start  == sessions[1].startTime
        end    == sessions[Len(sessions)].endTime
        offset == Frac(end - start, cm.skew_segments)
        st     == SegmentLoop(sessions, 1, offset,
                              [ timer    |-> RAdd(Rat(start), offset),
                                wl_seg   |-> <<>>,
                                segments |-> <<>> ])
    IN  Append(st.segments, st.wl_seg)

\* lines 188-189
SegmentCosts(d, segments) ==
    [ i \in 1..Len(segments) |-> partialNetworkCost(d, segments[i]) ]

\* line 196 without the complement: the segment's network cost itself
RECURSIVE SumIntervalsOfNet(_, _)
SumIntervalsOfNet(segment_costs, i) ==
    IF i = 0 THEN Rat(0)
    ELSE RAdd(SumIntervalsOfNet(segment_costs, i - 1),
              RMul(segment_costs[i][1], Rat(segment_costs[i][2])))

\* line 197 without the weight of the segment's query count
RECURSIVE SumIntervalsUnweighted(_, _)
SumIntervalsUnweighted(segment_costs, i) ==
    IF i = 0 THEN Rat(0)
    ELSE RAdd(SumIntervalsUnweighted(segment_costs, i - 1),
              RSub(Rat(1), segment_costs[i][1]))

RECURSIVE SumIntervals(_, _)
SumIntervals(segment_costs, i) ==
    IF i = 0 THEN Rat(0)
    ELSE RAdd(SumIntervals(segment_costs, i - 1),
              RMul(RSub(Rat(1), segment_costs[i][1]), Rat(segment_costs[i][2])))

RECURSIVE SumQueryCounts(_, _)
SumQueryCounts(segment_costs, i) ==
    IF i = 0 THEN 0
    ELSE SumQueryCounts(segment_costs, i - 1) + segment_costs[i][2]

\* lines 193-203
SkewAggregate(segment_costs) ==
    LET sum_intervals       == SumIntervals(segment_costs, Len(segment_costs))
        sum_of_query_counts == SumQueryCounts(segment_costs, Len(segment_costs))
    IN  IF sum_of_query_counts = 0 THEN Rat(0)
        ELSE RDiv(sum_intervals, Rat(sum_of_query_counts))

skewCost(d) ==
    IF Len(cm.workload) > 0
    THEN SkewAggregate(SegmentCosts(d, SkewSegments(cm.workload)))
    ELSE Rat(0)

(***************************************************************************)
(* CostModel.getIndexSize                                                  *)
(***************************************************************************)
RECURSIVE SumOver(_, _)
SumOver(S, f) ==
    IF S = {} THEN Rat(0)
    ELSE LET x == CHOOSE y \in S : TRUE
         IN  RAdd(f[x], SumOver(S \ {x}, f))

CollectionIndexSize(d, col) ==
    LET idx == getIndexesForCollection(d, col)
        per == [ index \in idx |->
                   RMul(RMul(Rat(cm.stats[col].tuple_count), cm.address_size),
                        Rat(Len(index))) ]
    IN  RAdd(Rat(cm.stats[col].tuple_count * cm.stats[col].avg_doc_size),
             SumOver(idx, per))

getIndexSize(d) ==
    SumOver(getCollections(d), [ col \in getCollections(d) |-> CollectionIndexSize(d, col) ])

(***************************************************************************)
(* CostModel.estimateWorkingSets                                           *)
(***************************************************************************)
\* the order of Python's tuple comparison on (workload_percent, collection)
ColRank(col) == CASE col = "A" -> 1 [] col = "B" -> 2 [] OTHER -> 3

PairBefore(p, q) ==
    \/ RLt(q[1], p[1])
    \/ p[1] = q[1] /\ ColRank(p[2]) > ColRank(q[2])

\* sorting_pairs.sort(reverse=True)
RECURSIVE SortedPairs(_)
SortedPairs(S) ==
    IF S = {} THEN <<>>
    ELSE LET first == CHOOSE p \in S : \A q \in S \ {p} : PairBefore(p, q)
         IN  <<first>> \o SortedPairs(S \ {first})

\* lines 305-317: st = [working_set_counts, buffer, needs_memory]
FirstPassStep(capacity, pair, st) ==
    LET col              == pair[2]
        memory_available == RMul(capacity, pair[1])
        memory_needed    == Rat(cm.stats[col].avg_doc_size * cm.stats[col].tuple_count)
    IN  IF RLeq(memory_needed, memory_available)
        THEN [ st EXCEPT !.working_set_counts[col] = Rat(100),
                         !.buffer = RAdd(st.buffer, RSub(memory_available, memory_needed)) ]
        ELSE LET col_percent == RDiv(memory_available, memory_needed)
                 still_needs == RSub(Rat(1), col_percent)
             IN  [ st EXCEPT !.working_set_counts[col] = Rat(Ceil(RMul(col_percent, Rat(100)))),
                             !.needs_memory = Append(st.needs_memory, <<still_needs, col>>) ]

RECURSIVE FirstPass(_, _, _, _)
FirstPass(capacity, pairs, i, st) ==
    IF i > Len(pairs) THEN st
    ELSE FirstPass(capacity, pairs, i + 1, FirstPassStep(capacity, pairs[i], st))

\* lines 322-332
SecondPassStep(pair, st) ==
    LET col              == pair[2]
        memory_available == st.buffer
        memory_needed    ==
            RMul(RSub(Rat(1), RDiv(st.working_set_counts[col], Rat(100))),
                 Rat(cm.stats[col].avg_doc_size * cm.stats[col].tuple_count))
    IN  IF RLeq(memory_needed, memory_available)
        THEN [ st EXCEPT !.working_set_counts[col] = Rat(100),
                         !.buffer = RSub(memory_available, memory_needed) ]
        ELSE IF RLt(Rat(0), memory_available)
             THEN LET col_percent == RDiv(memory_available, memory_needed)
                  IN  [ st EXCEPT !.working_set_counts[col] =
                            RAdd(st.working_set_counts[col], RMul(col_percent, Rat(100))) ]
             ELSE st

RECURSIVE SecondPass(_, _, _)
SecondPass(needs, i, st) ==
    IF i > Len(needs) THEN st
    ELSE SecondPass(needs, i + 1, SecondPassStep(needs[i], st))

estimateWorkingSets(d, capacity) ==
    LET sorting_pairs == SortedPairs({ <<cm.stats[col].workload_percent, col>> :
                                          col \in getCollections(d) })
        first  == FirstPass(capacity, sorting_pairs, 1,
                            [ working_set_counts |-> [ col \in getCollections(d) |-> Rat(0) ],
                              buffer             |-> Rat(0),
                              needs_memory       |-> <<>> ])
        second == SecondPass(first.needs_memory, 1, first)
    IN  second.working_set_counts

(***************************************************************************)
(* Costs that may hold the disk sentinel 10000000000000 are kept as        *)
(* [tera, unit], the number tera * 10^12 + unit with two rationals, so     *)
(* that the arithmetic stays exact; unit stays far below 10^12.            *)
(***************************************************************************)
Small(r) == [ tera |-> Rat(0), unit |-> r ]
DiskSentinel == [ tera |-> Rat(10), unit |-> Rat(0) ]
VScale(w, v) == [ tera |-> RMul(Rat(w), v.tera), unit |-> RMul(Rat(w), v.unit) ]
VAdd(v, w) == [ tera |-> RAdd(v.tera, w.tera), unit |-> RAdd(v.unit, w.unit) ]
VDiv(v, n) == [ tera |-> RDiv(v.tera, Rat(n)), unit |-> RDiv(v.unit, Rat(n)) ]
\* v > 10^12
ExceedsTera(v) == RLt(Rat(1), v.tera) \/ (v.tera = Rat(1) /\ RLt(Rat(0), v.unit))
\* 0 <= v <= 1
InUnitInterval(v) == v.tera = Rat(0) /\ RLeq(Rat(0), v.unit) /\ RLeq(v.unit, Rat(1))

(***************************************************************************)
(* CostModel.diskCost                                                      *)
(***************************************************************************)
\* self.rg.randint(1, 100) in generator state rg
RandInt(rg) == IF rg < Len(randints) THEN randints[rg + 1] ELSE 1

PredicateKeys(q) == [ j \in 1..Len(q.predicates) |-> q.predicates[j][1] ]

\* lines 126-157: st = [cost, worst_case, rg]
DiskQueryStep(d, working_set, q, st) ==
    IF q.type = "insert"
    THEN [ st EXCEPT !.cost = st.cost + 1, !.worst_case = st.worst_case + 1 ]
    ELSE LET max_pages == cm.stats[q.collection].max_pages
         IN  IF RLeq(Rat(100), working_set[q.collection])
             THEN [ st EXCEPT !.worst_case = st.worst_case + max_pages ]
             ELSE IF hasIndex(d, q.collection, PredicateKeys(q))
             THEN [ st EXCEPT !.worst_case = st.worst_case + max_pages ]
             ELSE LET ws_hit    == RandInt(st.rg)
                      min_pages == IF RLeq(Rat(ws_hit), working_set[q.collection])
                                   THEN 0 ELSE max_pages
                  IN  [ cost       |-> st.cost + min_pages,
                        worst_case |-> st.worst_case + max_pages,
                        rg         |-> st.rg + 1 ]

\* line 124 with `continue` in place of `break`: only the query whose
\* collection is not in the design is skipped
RECURSIVE DiskQueriesContinue(_, _, _, _, _)
DiskQueriesContinue(d, working_set, queries, i, st) ==
    IF i > Len(queries) THEN st
    ELSE IF ~hasCollection(d, queries[i].collection)
    THEN DiskQueriesContinue(d, working_set, queries, i + 1, st)
    ELSE DiskQueriesContinue(d, working_set, queries, i + 1,
                             DiskQueryStep(d, working_set, queries[i], st))

\* lines 121-157: the loop over one session, left at the first query whose
\* collection is not in the design
RECURSIVE DiskQueries(_, _, _, _, _)
DiskQueries(d, working_set, queries, i, st) ==
    IF i > Len(queries) THEN st
    ELSE IF ~hasCollection(d, queries[i].collection) THEN st
    ELSE DiskQueries(d, working_set, queries, i + 1,
                     DiskQueryStep(d, working_set, queries[i], st))

RECURSIVE DiskSessions(_, _, _, _, _)
DiskSessions(d, working_set, sessions, j, st) ==
    IF j > Len(sessions) THEN st
    ELSE DiskSessions(d, working_set, sessions, j + 1,
                      DiskQueries(d, working_set, sessions[j].queries, 1, st))

\* diskCost called in generator state rg: the value returned and the
\* generator state it leaves
diskCost(d, rg) ==
    LET index_memory == getIndexSize(d)
    IN  IF RLt(Rat(cm.max_memory), index_memory)
        THEN [ value |-> DiskSentinel, rg |-> rg ]
        ELSE LET working_set == estimateWorkingSets(d, RSub(Rat(cm.max_memory), index_memory))
                 st == DiskSessions(d, working_set, cm.workload, 1,
                                    [ cost |-> 0, worst_case |-> 0, rg |-> rg ])
             IN  [ value |-> IF st.worst_case = 0 THEN Small(Rat(0))
                             ELSE Small(Frac(st.cost, st.worst_case)),
                   rg    |-> st.rg ]

(***************************************************************************)
(* CostModel.overallCost                                                   *)
(***************************************************************************)
\* line 95 without the division by the sum of the weights
overallCostUndivided(d, rg) ==
    LET disk == diskCost(d, rg)
        cost == VAdd(VAdd(VScale(cm.weight_network, Small(networkCost(d))),
                          VScale(cm.weight_disk, disk.value)),
                     VScale(cm.weight_skew, Small(skewCost(d))))
    IN  [ value |-> cost, rg |-> disk.rg ]

overallCost(d, rg) ==
    LET disk == diskCost(d, rg)
        cost == VAdd(VAdd(VScale(cm.weight_network, Small(networkCost(d))),
                          VScale(cm.weight_disk, disk.value)),
                     VScale(cm.weight_skew, Small(skewCost(d))))
    IN  [ value |-> VDiv(cost, cm.weight_network + cm.weight_disk + cm.weight_skew),
          rg    |-> disk.rg ]

(***************************************************************************)
(* The inputs: catalogs, queries, workloads, designs and configurations.   *)
(***************************************************************************)
MaxSessions == 2
MaxQueries == 3

Collections == {"A", "B"}
NoIndexes == [ col \in Collections |-> {} ]
\* the value of `design` before any call
NoDesign == [ cols |-> {}, shardKeys |-> <<>>, indexes |-> <<>>, parent |-> <<>> ]

Query(col, type, preds) == [ collection |-> col, type |-> type, predicates |-> preds ]
Session(start, end, queries) == [ startTime |-> start, endTime |-> end, queries |-> queries ]

FieldStats(sel) == [ selectivity |-> sel ]
CollectionStats(n, size, pages, share, selx, sely) ==
    [ tuple_count      |-> n,
      avg_doc_size     |-> size,
      max_pages        |-> pages,
      workload_percent |-> share,
      fields           |-> [ f \in {"x", "y"} |-> FieldStats(IF f = "x" THEN selx ELSE sely) ] ]

\* all sequences of at most n sessions that hold at most q queries together,
\* every session running from time 0 to time 0
RECURSIVE QuerySeqs(_, _)
QuerySeqs(Q, k) ==
    IF k = 0 THEN { <<>> }
    ELSE { <<q>> \o rest : q \in Q, rest \in QuerySeqs(Q, k - 1) }

RECURSIVE UntimedWorkloads(_, _, _)
UntimedWorkloads(Q, n, q) ==
    IF n = 0 THEN { <<>> }
    ELSE { <<>> } \cup
         UNION { { <<Session(0, 0, qs)>> \o rest :
                     qs \in QuerySeqs(Q, k), rest \in UntimedWorkloads(Q, n - 1, q - k) } :
                 k \in 0..q }

(***************************************************************************)
(* SpecNet: the network cost of a design, over every workload of at most   *)
(* MaxSessions sessions and MaxQueries queries drawn from NetQueries.      *)
(***************************************************************************)
NetQueries ==
    { Query("A", "insert", <<>>),
      Query("A", "select", <<>>),
      Query("A", "select", << <<"x", "equality">> >>),
      Query("A", "select", << <<"x", "range">> >>),
      Query("A", "update", << <<"x", "range">>, <<"y", "equality">> >>),
      Query("B", "select", << <<"x", "equality">> >>) }

NetStats ==
    [ col \in Collections |-> CollectionStats(100, 1, 10, Frac(1, 2), Frac(1, 8), Rat(1)) ]

NetNodes == {1, 4}

NetConfig(nodes) ==
    [ weight_network |-> 1, weight_disk |-> 1, weight_skew |-> 1, nodes |-> nodes,
      max_memory |-> 1, address_size |-> 64, skew_intervals |-> 2 ]

NetDesigns ==
    LET all == { [ cols      |-> cols,
                   shardKeys |-> [ col \in Collections |-> IF col = "A" THEN skA ELSE <<"x">> ],
                   indexes   |-> NoIndexes,
                   parent    |-> [ col \in Collections |-> IF col = "B" THEN pB ELSE "None" ] ] :
                 cols \in { {"A"}, {"A", "B"} },
                 skA \in { <<>>, <<"x">>, <<"x", "y">> },
                 pB \in { "None", "A", "B" } }
    IN  { d \in all : "B" \in d.cols \/ d.parent["B"] = "None" }

InitNet ==
    /\ \E w \in UntimedWorkloads(NetQueries, MaxSessions, MaxQueries), nodes \in NetNodes :
          cm = CostModelInit(w, NetConfig(nodes), NetStats)
    /\ randints = <<>>
    /\ design \in NetDesigns
    /\ call = "init"
    /\ ret = Rat(0)
    /\ lns = LnsIdle

\* networkCost(design)
NetworkCost ==
    /\ call' = "networkCost"
    /\ ret' = networkCost(design)
    /\ UNCHANGED <<cm, design, randints, lns>>

NextNet == NetworkCost

SpecNet == InitNet /\ [][NextNet]_vars

(***************************************************************************)
(* What the claims say of a query, stated from the design and the          *)
(* workload alone.                                                         *)
(***************************************************************************)
Positions(w) == UNION { { <<j, i>> : i \in 1..Len(w[j].queries) } : j \in 1..Len(w) }
QueryAt(w, p) == w[p[1]].queries[p[2]]
InDesign(d, w, p) == QueryAt(w, p).collection \in d.cols

\* free-ridden by the select before it, on its embedding parent
Absorbed(d, w, p) ==
    LET q == QueryAt(w, p)
    IN  /\ p[2] > 1
        /\ q.type = "select"
        /\ w[p[1]].queries[p[2] - 1].type = "select"
        /\ d.parent[q.collection] # q.collection
        /\ w[p[1]].queries[p[2] - 1].collection = d.parent[q.collection]

Processed(d, w, p) == InDesign(d, w, p) /\ ~Absorbed(d, w, p)

KeyMatches(d, q, j) == \E n \in 1..Len(d.shardKeys[q.collection]) :
                          d.shardKeys[q.collection][n] = q.predicates[j][1]

\* predicate j decides the routing of q: the last one on a shard-key field
Deciding(d, q, j) ==
    /\ j \in 1..Len(q.predicates)
    /\ KeyMatches(d, q, j)
    /\ \A n \in (j + 1)..Len(q.predicates) : ~KeyMatches(d, q, n)

TargetedEquality(d, q) ==
    q.type # "insert" /\ \E j \in 1..Len(q.predicates) :
                            Deciding(d, q, j) /\ q.predicates[j][2] = "equality"

TargetedOther(d, q) ==
    q.type # "insert" /\ \E j \in 1..Len(q.predicates) :
                            Deciding(d, q, j) /\ q.predicates[j][2] # "equality"

Broadcast(d, q) ==
    q.type # "insert" /\ \A j \in 1..Len(q.predicates) : ~KeyMatches(d, q, j)

\* C4: after networkCost(design), the cost is 0 if and only if every query
\* on a collection of the design is absorbed by embedding or is a processed
\* non-insert query whose deciding shard-key predicate is an equality.
C4_NetZeroIff ==
    call = "networkCost" =>
        ( ret = Rat(0) <=>
            \A p \in Positions(cm.workload) :
                InDesign(design, cm.workload, p) =>
                    \/ Absorbed(design, cm.workload, p)
                    \/ TargetedEquality(design, QueryAt(cm.workload, p)) )

C4_Witness ==
    /\ call = "networkCost"
    /\ ret = Rat(0)
    /\ \E p \in Positions(cm.workload) :
          InDesign(design, cm.workload, p) /\ Absorbed(design, cm.workload, p)
    /\ \E p \in Positions(cm.workload) :
          /\ Processed(design, cm.workload, p)
          /\ Len(QueryAt(cm.workload, p).predicates) = 2
          /\ TargetedEquality(design, QueryAt(cm.workload, p))

\* the query adds the full `nodes` to the result
FullCost(d, q) ==
    \/ Broadcast(d, q)
    \/ q.type = "insert" /\ cm.nodes = 1
    \/ /\ TargetedOther(d, q)
       /\ LET k == q.predicates[Len(q.predicates)][1]
          IN  RLt(Rat(cm.nodes - 1),
                  RMul(cm.stats[q.collection].fields[k].selectivity, Rat(cm.nodes)))

\* C5 as stated: after networkCost(design), the cost is 1 if and only if
\* every processed query is a broadcast.
C5_NetOneIffAllBroadcast ==
    call = "networkCost" =>
        ( ret = Rat(1) <=>
            \A p \in Positions(cm.workload) :
                Processed(design, cm.workload, p) =>
                    Broadcast(design, QueryAt(cm.workload, p)) )

\* C5 amended: after networkCost(design), the cost is 1 if and only if at
\* least one query is processed and every processed query adds `nodes` to
\* the result: a broadcast, a targeted non-equality query whose guessNodes
\* estimate is `nodes`, or an insert when nodes = 1.
C5_NetOneIffAllFullCost ==
    call = "networkCost" =>
        ( ret = Rat(1) <=>
            /\ \E p \in Positions(cm.workload) : Processed(design, cm.workload, p)
            /\ \A p \in Positions(cm.workload) :
                  Processed(design, cm.workload, p) =>
                      FullCost(design, QueryAt(cm.workload, p)) )

C5_Witness ==
    /\ call = "networkCost"
    /\ ret = Rat(1)
    /\ cm.nodes > 1
    /\ \E p \in Positions(cm.workload) :
          /\ Processed(design, cm.workload, p)
          /\ Broadcast(design, QueryAt(cm.workload, p))
    /\ \E p \in Positions(cm.workload) :
          /\ Processed(design, cm.workload, p)
          /\ TargetedOther(design, QueryAt(cm.workload, p))

\* the selects that precede another query of their session
PrecedingSelects(w) ==
    { p \in Positions(w) : QueryAt(w, p).type = "select" /\ p[2] < Len(w[p[1]].queries) }

Retyped(w, p, t) == [ w EXCEPT ![p[1]].queries[p[2]].type = t ]

\* C6 as stated: changing a select that precedes another query of its
\* session to insert, update or delete never makes networkCost smaller.
C6_RetypeNeverLowersNet ==
    call = "networkCost" =>
        \A p \in PrecedingSelects(cm.workload) : \A t \in {"insert", "update", "delete"} :
            RLeq(ret, partialNetworkCost(design, Retyped(cm.workload, p, t))[1])

\* C6 amended: changing such a select to update or delete never makes the
\* un-normalised result, the worst case or the query count of
\* partialNetworkCost smaller, and changing it to insert never makes the
\* worst case or the query count smaller.
C6_RetypeNeverLowersTotals ==
    call = "networkCost" =>
        \A old \in { NetworkTotals(design, cm.workload) } :
            \A p \in PrecedingSelects(cm.workload) : \A t \in {"insert", "update", "delete"} :
                \A new \in { NetworkTotals(design, Retyped(cm.workload, p, t)) } :
                    /\ old.worst_case <= new.worst_case
                    /\ old.query_count <= new.query_count
                    /\ t # "insert" => old.result <= new.result

C6_Witness ==
    /\ call = "networkCost"
    /\ \E p \in PrecedingSelects(cm.workload) :
          /\ Absorbed(design, cm.workload, <<p[1], p[2] + 1>>)
          /\ InDesign(design, cm.workload, <<p[1], p[2] + 1>>)
          /\ NetworkTotals(design, cm.workload).query_count
               < NetworkTotals(design, Retyped(cm.workload, p, "update")).query_count
          /\ RLt(partialNetworkCost(design, Retyped(cm.workload, p, "update"))[1], ret)

\* C11: after networkCost(design), every processed non-insert query with
\* several predicates whose deciding predicate (the last one on a shard-key
\* field) is not an equality adds ceil(selectivity of that matching field *
\* nodes) to the result.
C11_MatchingFieldSelectivity ==
    call = "networkCost" =>
        \A p \in Positions(cm.workload) :
            LET q == QueryAt(cm.workload, p)
            IN  ( /\ Processed(design, cm.workload, p)
                  /\ Len(q.predicates) > 1
                  /\ TargetedOther(design, q) ) =>
                    \A j \in 1..Len(q.predicates) :
                        Deciding(design, q, j) =>
                            Contribution(design, q) =
                                Ceil(RMul(cm.stats[q.collection].fields[q.predicates[j][1]].selectivity,
                                          Rat(cm.nodes)))

\* C13: after networkCost(design), a query on a collection of the design
\* leaves worst_case, query_count and result as they were if it is not the
\* first query of its session, it and the query before it are selects, the
\* parent of its collection is another collection and the query before it is
\* on that parent; every other query on a collection of the design raises
\* query_count by 1 and worst_case by nodes.  The totals of the walk count
\* just the queries that are not absorbed.
C13_AbsorptionDecision ==
    call = "networkCost" =>
        /\ \A p \in Positions(cm.workload) :
              InDesign(design, cm.workload, p) =>
                  \A after \in { QueryStep(design, cm.workload[p[1]].queries, p[2],
                                            [worst_case |-> 0, result |-> 0, query_count |-> 0]) } :
                      IF Absorbed(design, cm.workload, p)
                      THEN after.query_count = 0 /\ after.worst_case = 0 /\ after.result = 0
                      ELSE after.query_count = 1 /\ after.worst_case = cm.nodes
        /\ \A totals \in { NetworkTotals(design, cm.workload) } :
              \A n \in { Cardinality({ p \in Positions(cm.workload) :
                                          Processed(design, cm.workload, p) }) } :
                  totals.query_count = n /\ totals.worst_case = cm.nodes * n

\* the session [select A, select B] with parent(B) = A: only the first
\* query is processed
C13_Witness ==
    /\ call = "networkCost"
    /\ design.cols = {"A", "B"}
    /\ design.parent["B"] = "A"
    /\ Len(cm.workload) = 1
    /\ Len(cm.workload[1].queries) = 2
    /\ QueryAt(cm.workload, <<1, 1>>).collection = "A"
    /\ QueryAt(cm.workload, <<1, 1>>).type = "select"
    /\ QueryAt(cm.workload, <<1, 2>>).collection = "B"
    /\ QueryAt(cm.workload, <<1, 2>>).type = "select"
    /\ Absorbed(design, cm.workload, <<1, 2>>)
    /\ NetworkTotals(design, cm.workload).query_count = 1
    /\ NetworkTotals(design, cm.workload).worst_case = cm.nodes

(***************************************************************************)
(* Spec: one CostModel object and the calls of overallCost and diskCost on *)
(* it, one after the other, for any designs.                               *)
(***************************************************************************)
MaxCostSessions == 2
MaxDraws == 2

\* values of randint(1, 100) on either side of the residencies that occur
DrawValues == {3, 50}

RECURSIVE SeqsOfLen(_, _)
SeqsOfLen(S, n) ==
    IF n = 0 THEN { <<>> }
    ELSE { <<x>> \o rest : x \in S, rest \in SeqsOfLen(S, n - 1) }

CostBodies ==
    { << Query("A", "select", << <<"x", "equality">> >>) >>,
      << Query("B", "select", << <<"x", "range">> >>) >>,
      << Query("A", "insert", <<>>), Query("B", "update", <<>>) >>,
      << Query("B", "select", << <<"x", "range">> >>),
         Query("A", "select", <<>>) >> }

\* session j of a workload runs from time j - 1 to time j
RECURSIVE Timed(_, _)
Timed(bodies, j) ==
    IF j > Len(bodies) THEN <<>>
    ELSE <<Session(j - 1, j, bodies[j])>> \o Timed(bodies, j + 1)

CostWorkloads ==
    UNION { { Timed(bodies, 1) : bodies \in SeqsOfLen(CostBodies, n) } : n \in 0..MaxCostSessions }

\* A is small; B fills most of the memory of the two nodes, and with the
\* larger B an index on it no longer fits
CostStats ==
    { [ col \in Collections |->
          IF col = "A" THEN CollectionStats(4096, 1, 10, Frac(1, 2), Frac(1, 8), Rat(1))
          ELSE CollectionStats(4096, sizeB, 20, Frac(1, 2), Frac(1, 2), Rat(1)) ] :
      sizeB \in {384, 496} }

CostWeights == { <<4, 1, 1>>, <<1, 0, 1>>, <<9, 1, 1>>, <<0, 1, 0>> }

CostConfig(w) ==
    [ weight_network |-> w[1], weight_disk |-> w[2], weight_skew |-> w[3], nodes |-> 2,
      max_memory |-> 1, address_size |-> 64, skew_intervals |-> 3 ]

CostDesign(cols, idxB) ==
    [ cols      |-> cols,
      shardKeys |-> [ col \in Collections |-> IF col = "A" THEN <<"x">> ELSE <<>> ],
      indexes   |-> [ col \in Collections |-> IF col = "B" THEN idxB ELSE {} ],
      parent    |-> [ col \in Collections |-> "None" ] ]

CostDesigns ==
    { CostDesign({"A", "B"}, {}), CostDesign({"A", "B"}, { <<"x">> }), CostDesign({"A"}, {}),
      CostDesign({"B"}, {}) }

Init ==
    /\ \E w \in CostWorkloads, weights \in CostWeights, st \in CostStats :
          cm = CostModelInit(w, CostConfig(weights), st)
    /\ randints \in SeqsOfLen(DrawValues, MaxDraws)
    /\ design = NoDesign
    /\ call = "init"
    /\ ret = Rat(0)
    /\ lns = LnsIdle

\* cost = self.overallCost(d)
OverallCost(d) ==
    \E r \in { overallCost(d, cm.rg) } :
        /\ r.rg <= MaxDraws
        /\ call' = "overallCost"
        /\ design' = d
        /\ ret' = r.value
        /\ cm' = [ cm EXCEPT !.rg = r.rg ]
        /\ UNCHANGED <<randints, lns>>

\* cost = self.diskCost(d)
DiskCost(d) ==
    \E r \in { diskCost(d, cm.rg) } :
        /\ r.rg <= MaxDraws
        /\ call' = "diskCost"
        /\ design' = d
        /\ ret' = r.value
        /\ cm' = [ cm EXCEPT !.rg = r.rg ]
        /\ UNCHANGED <<randints, lns>>

Next == \E d \in CostDesigns : OverallCost(d) \/ DiskCost(d)

Spec == Init /\ [][Next]_vars

\* C1: every invocation of overallCost on a design returns the value that
\* the first invocation on a freshly constructed CostModel returns for it,
\* whatever calls of overallCost and diskCost came before.
C1_OverallCostDeterministic ==
    call = "overallCost" => ret = overallCost(design, SeededState).value

\* C2 as stated: after overallCost(design), the cost lies in [0, 1] if the
\* index memory does not exceed max_memory, and exceeds 10^12 if it does.
C2_RangeOrAboveTera ==
    call = "overallCost" =>
        IF RLeq(getIndexSize(design), Rat(cm.max_memory))
        THEN InUnitInterval(ret)
        ELSE ExceedsTera(ret)

\* C2 amended: after overallCost(design), the cost lies in [0, 1] if the
\* index memory does not exceed max_memory; if it does, the cost exceeds
\* 10^12 provided 10 * weight_disk is greater than the sum of the weights.
C2_RangeOrAboveTeraIfWeighted ==
    call = "overallCost" =>
        IF RLeq(getIndexSize(design), Rat(cm.max_memory))
        THEN InUnitInterval(ret)
        ELSE 10 * cm.weight_disk > cm.weight_network + cm.weight_disk + cm.weight_skew
                => ExceedsTera(ret)

C2_Witness ==
    /\ call = "overallCost"
    /\ RLt(Rat(cm.max_memory), getIndexSize(design))
    /\ cm.weight_network = 4
    /\ ExceedsTera(ret)

\* the queries of a session before its first query on a collection that is
\* not in the design
CutOff(d, queries) ==
    LET missing == { i \in 1..Len(queries) : queries[i].collection \notin d.cols }
    IN  IF missing = {} THEN queries
        ELSE SubSeq(queries, 1, (CHOOSE i \in missing : \A n \in missing : i <= n) - 1)

\* those queries of sessions 1..j, one session after the other
RECURSIVE CountedQueries(_, _, _)
CountedQueries(d, sessions, j) ==
    IF j = 0 THEN <<>>
    ELSE CountedQueries(d, sessions, j - 1) \o CutOff(d, sessions[j].queries)

\* every query of qs counted as usual, from query i on
RECURSIVE CountAsUsual(_, _, _, _, _)
CountAsUsual(d, working_set, qs, i, st) ==
    IF i > Len(qs) THEN st
    ELSE CountAsUsual(d, working_set, qs, i + 1, DiskQueryStep(d, working_set, qs[i], st))

\* C14: a call of diskCost(design) whose indexes fit in memory returns the
\* cost, and leaves the generator in the state, that result from counting
\* as usual just the queries that come before the first query of their
\* session on a collection that is not in the design: that query and the
\* later queries of its session add nothing and draw nothing.
C14_DiskCostCutOff ==
    [][ call' = "diskCost" =>
          \A index_memory \in { getIndexSize(design') } :
              RLeq(index_memory, Rat(cm.max_memory)) =>
                  \A working_set \in { estimateWorkingSets(design',
                                           RSub(Rat(cm.max_memory), index_memory)) } :
                      \A st \in { CountAsUsual(design', working_set,
                                       CountedQueries(design', cm.workload, Len(cm.workload)),
                                       1, [ cost |-> 0, worst_case |-> 0, rg |-> cm.rg ]) } :
                          /\ ret' = IF st.worst_case = 0 THEN Small(Rat(0))
                                    ELSE Small(Frac(st.cost, st.worst_case))
                          /\ cm'.rg = st.rg ]_vars

\* a first diskCost on a workload of two sessions: one is cut at its first
\* query and a query that would have drawn follows the cut, the other is
\* counted and draws
C14_Witness ==
    /\ call = "diskCost"
    /\ design.cols = {"B"}
    /\ Len(cm.workload) = 2
    /\ cm.workload[1].queries = << Query("A", "insert", <<>>), Query("B", "update", <<>>) >>
    /\ cm.workload[2].queries = << Query("B", "select", << <<"x", "range">> >>) >>
    /\ cm.rg = 1
    /\ ret = Small(Rat(1))

(***************************************************************************)
(* SpecSkew: the skew cost of a design, over workloads of at most          *)
(* MaxSkewSessions sessions that start and end at times 0..MaxTime and are *)
(* ordered by start time.                                                  *)
(***************************************************************************)
MaxSkewSessions == 2
MaxTime == 2

SkewBodies ==
    { << Query("A", "select", << <<"x", "equality">> >>) >>,
      << Query("A", "select", <<>>) >>,
      << Query("A", "select", << <<"x", "equality">> >>), Query("A", "select", <<>>) >>,
      << Query("B", "select", << <<"x", "equality">> >>) >> }

TimedSessions ==
    { Session(a, b, body) : a \in 0..MaxTime, b \in 0..MaxTime, body \in SkewBodies }

\* the workloads of n sessions whose first session starts at `from` or later
RECURSIVE SkewWorkloads(_, _)
SkewWorkloads(n, from) ==
    IF n = 0 THEN { <<>> }
    ELSE UNION { { <<s>> \o rest : rest \in SkewWorkloads(n - 1, s.startTime) } :
                 s \in { t \in TimedSessions : from <= t.startTime /\ t.startTime <= t.endTime } }

SkewIntervals == {2, 3}

SkewConfig(intervals) ==
    [ weight_network |-> 1, weight_disk |-> 1, weight_skew |-> 1, nodes |-> 4,
      max_memory |-> 1, address_size |-> 64, skew_intervals |-> intervals ]

SkewDesign(cols, skA) ==
    [ cols      |-> cols,
      shardKeys |-> [ col \in Collections |-> IF col = "A" THEN skA ELSE <<"x">> ],
      indexes   |-> NoIndexes,
      parent    |-> [ col \in Collections |-> "None" ] ]

SkewDesigns ==
    { SkewDesign({"A"}, <<"x">>), SkewDesign({"A", "B"}, <<"x">>), SkewDesign({"A"}, <<>>) }

InitSkew ==
    /\ \E n \in 0..MaxSkewSessions : \E w \in SkewWorkloads(n, 0) : \E k \in SkewIntervals :
          cm = CostModelInit(w, SkewConfig(k), NetStats)
    /\ randints = <<>>
    /\ design \in SkewDesigns
    /\ call = "init"
    /\ ret = Rat(0)
    /\ lns = LnsIdle

\* skewCost(design)
SkewCost ==
    /\ call' = "skewCost"
    /\ ret' = skewCost(design)
    /\ UNCHANGED <<cm, design, randints, lns>>

NextSkew == SkewCost

SpecSkew == InitSkew /\ [][NextSkew]_vars

\* the (net_i, qc_i) pairs of the segments skewCost builds
SegmentPairs == SegmentCosts(design, SkewSegments(cm.workload))

AllSegmentsEqual ==
    /\ Len(cm.workload) > 0
    /\ \A i \in 1..Len(SegmentPairs) : SegmentPairs[i] = SegmentPairs[1]

\* C7 as stated: after skewCost(design), if all segments have the same
\* pair (net_i, qc_i), the cost is 1 - net_i, also when the query count is 0.
C7_EqualSegmentsGiveComplement ==
    (call = "skewCost" /\ AllSegmentsEqual) => ret = RSub(Rat(1), SegmentPairs[1][1])

\* C7 amended: after skewCost(design), if all segments have the same pair
\* (net_i, qc_i), the cost is 1 - net_i when that query count is positive
\* and 0 when it is 0.
C7_EqualSegmentsGiveComplementOrZero ==
    (call = "skewCost" /\ AllSegmentsEqual) =>
        ret = IF SegmentPairs[1][2] > 0 THEN RSub(Rat(1), SegmentPairs[1][1]) ELSE Rat(0)

C7_Witness ==
    /\ call = "skewCost"
    /\ AllSegmentsEqual
    /\ Len(SegmentPairs) >= 2
    /\ SegmentPairs[1][2] = 2
    /\ ret = Frac(1, 2)

\* C12: after skewCost(design) on a non-empty workload, the sessions are
\* split into exactly skew_intervals - 1 segments, and every session of a
\* non-trailing segment i ends no later than start + i * offset, the upper
\* time bound of that segment.
C12_SegmentCountAndBounds ==
    (call = "skewCost" /\ Len(cm.workload) > 0) =>
        LET segments == SkewSegments(cm.workload)
            start    == cm.workload[1].startTime
            end      == cm.workload[Len(cm.workload)].endTime
            offset   == Frac(end - start, cm.skew_segments)
        IN  /\ Len(segments) = cm.skew_segments
            /\ \A i \in 1..(Len(segments) - 1) : \A n \in 1..Len(segments[i]) :
                  RLeq(Rat(segments[i][n].endTime), RAdd(Rat(start), RMul(Rat(i), offset)))

\* the sessions of the segments, one segment after the other
RECURSIVE Flatten(_, _)
Flatten(segments, i) ==
    IF i = 0 THEN <<>> ELSE Flatten(segments, i - 1) \o segments[i]

RECURSIVE SumTotals(_, _, _)
SumTotals(d, segments, i) ==
    IF i = 0 THEN [worst_case |-> 0, result |-> 0, query_count |-> 0]
    ELSE LET rest == SumTotals(d, segments, i - 1)
             seg  == NetworkTotals(d, segments[i])
         IN  [ worst_case  |-> rest.worst_case + seg.worst_case,
               result      |-> rest.result + seg.result,
               query_count |-> rest.query_count + seg.query_count ]

\* C15: after skewCost(design) on a non-empty workload, the segments taken
\* one after the other are the workload's sessions in their order, the
\* segments' query counts, results and worst cases sum to those of the
\* whole workload, and the cost is 1 - networkCost(design) when at least
\* one query is processed and 0 when none is.
C15_SkewIsComplementOfNet ==
    (call = "skewCost" /\ Len(cm.workload) > 0) =>
        LET segments == SkewSegments(cm.workload)
            whole    == NetworkTotals(design, cm.workload)
        IN  /\ Flatten(segments, Len(segments)) = cm.workload
            /\ SumTotals(design, segments, Len(segments)) = whole
            /\ ret = IF whole.query_count > 0
                     THEN RSub(Rat(1), networkCost(design))
                     ELSE Rat(0)

C15_Witness ==
    /\ call = "skewCost"
    /\ Len(cm.workload) > 0
    /\ Len(SegmentPairs) >= 2
    /\ \E i, j \in 1..Len(SegmentPairs) :
          /\ SegmentPairs[i][2] > 0
          /\ SegmentPairs[j][2] > 0
          /\ SegmentPairs[i][1] # SegmentPairs[j][1]
    /\ RLt(Rat(0), ret)
    /\ RLt(ret, Rat(1))

(***************************************************************************)
(* SpecS1: scenario S1.  One collection A of 100 documents, in the design  *)
(* with shard key (x), 4 nodes, and one session holding one select on A    *)
(* with the predicate x: equality.  The weights, the number of skew        *)
(* intervals, the session's times, the document size and the indexes of    *)
(* the design are free.                                                    *)
(***************************************************************************)
S1Query == Query("A", "select", << <<"x", "equality">> >>)

S1Stats(size) ==
    [ col \in {"A"} |-> CollectionStats(100, size, 10, Rat(1), Frac(1, 8), Rat(1)) ]

S1Config(w, intervals) ==
    [ weight_network |-> w[1], weight_disk |-> w[2], weight_skew |-> w[3], nodes |-> 4,
      max_memory |-> 1, address_size |-> 64, skew_intervals |-> intervals ]

S1Design(idx) ==
    [ cols      |-> {"A"},
      shardKeys |-> [ col \in {"A"} |-> <<"x">> ],
      indexes   |-> [ col \in {"A"} |-> idx ],
      parent    |-> [ col \in {"A"} |-> "None" ] ]

InitS1 ==
    /\ \E a \in 0..MaxTime, b \in 0..MaxTime, w \in CostWeights, k \in SkewIntervals,
          size \in {1, 40000} :
          /\ a <= b
          /\ cm = CostModelInit(<<Session(a, b, <<S1Query>>)>>, S1Config(w, k), S1Stats(size))
    /\ randints \in SeqsOfLen(DrawValues, MaxDraws)
    /\ design \in { S1Design({}), S1Design({ <<"x">> }) }
    /\ call = "init"
    /\ ret = Rat(0)
    /\ lns = LnsIdle

NextS1 == NetworkCost \/ SkewCost \/ OverallCost(design) \/ DiskCost(design)

SpecS1 == InitS1 /\ [][NextS1]_vars

IsS1 ==
    /\ cm.nodes = 4
    /\ Len(cm.workload) = 1
    /\ cm.workload[1].queries = <<S1Query>>
    /\ design.cols = {"A"}
    /\ design.shardKeys["A"] = <<"x">>

WeightSum == cm.weight_network + cm.weight_disk + cm.weight_skew

\* C9 as stated: in scenario S1 networkCost is 0, skewCost is 0 and
\* overallCost is 0.
C9_S1AllZero ==
    IsS1 => /\ call = "networkCost" => ret = Rat(0)
            /\ call = "skewCost" => ret = Rat(0)
            /\ call = "overallCost" => ret = Small(Rat(0))

\* C9 amended: in scenario S1 networkCost is 0, skewCost is 1, and
\* overallCost is (weight_disk * disk + weight_skew) / (sum of the weights)
\* with disk the disk cost, 0 or 1 for the single query: weight_skew / sum
\* when the query is served from memory or an index, and 0 only if
\* weight_skew is 0.
C9_S1NetZeroSkewOne ==
    IsS1 => /\ call = "networkCost" => ret = Rat(0)
            /\ call = "skewCost" => ret = Rat(1)
            /\ call = "overallCost" =>
                  /\ ret \in { Small(Frac(cm.weight_skew, WeightSum)),
                               Small(Frac(cm.weight_disk + cm.weight_skew, WeightSum)) }
                  /\ ret = Small(Rat(0)) => cm.weight_skew = 0

C9_Witness ==
    /\ IsS1
    /\ call = "overallCost"
    /\ cm.weight_network = 4
    /\ design.indexes["A"] = { <<"x">> }
    /\ ret = Small(Frac(1, 6))

(***************************************************************************)
(* SpecWS: estimateWorkingSets for a design and a capacity, over catalogs  *)
(* of two collections.                                                     *)
(***************************************************************************)
WSStats ==
    { [ col \in Collections |->
          IF col = "A" THEN CollectionStats(4096, sizeA, 10, shareA, Frac(1, 8), Rat(1))
          ELSE CollectionStats(4096, sizeB, 20, RSub(Rat(1), shareA), Frac(1, 2), Rat(1)) ] :
      sizeA \in {1, 64}, sizeB \in {128, 384, 496},
      shareA \in { Rat(0), Frac(1, 4), Frac(1, 2), Frac(3, 4), Rat(1) } }

WSCapacities == { 0, 4096, 524288, 1048576, 2097152 }

InitWS ==
    /\ \E st \in WSStats : cm = CostModelInit(<<>>, NetConfig(1), st)
    /\ randints = <<>>
    /\ design \in { CostDesign({"A", "B"}, {}), CostDesign({"A"}, {}) }
    /\ call = "init"
    /\ ret = Rat(0)
    /\ lns = LnsIdle

\* working_set = self.estimateWorkingSets(design, capacity)
EstimateWorkingSets(capacity) ==
    /\ call' = "estimateWorkingSets"
    /\ ret' = estimateWorkingSets(design, Rat(capacity))
    /\ UNCHANGED <<cm, design, randints, lns>>

NextWS == \E capacity \in WSCapacities : EstimateWorkingSets(capacity)

SpecWS == InitWS /\ [][NextWS]_vars

\* C10: estimateWorkingSets returns for each collection of the design a
\* residency percentage in [0, 100].
C10_ResidencyInRange ==
    call = "estimateWorkingSets" =>
        \A col \in design.cols : RLeq(Rat(0), ret[col]) /\ RLeq(ret[col], Rat(100))

(***************************************************************************)
(* SpecLNS: the search for a design, as the test drives it: the candidate  *)
(* space, the initial designer, the branch-and-bound search and the LNS    *)
(* loop around it.  Their code is not part of the sources at hand; they    *)
(* are modelled from sections 4.3, 4.5, 4.6 and 4.7 of the specification.  *)
(* In this specification a field name is the sequence of its characters,   *)
(* so that startswith is computed and not looked up.                       *)
(***************************************************************************)
REPLACE_KEY_DOLLAR_PREFIX == "$"

\* key.startswith(constants.REPLACE_KEY_DOLLAR_PREFIX)
StartsWithDollar(key) == Len(key) > 0 /\ key[1] = REPLACE_KEY_DOLLAR_PREFIX

FieldX == <<"x">>
FieldY == <<"y">>
FieldV == <<"v">>
FieldZ == <<"$", "z">>
FieldW == <<"$", "w">>

\* the fields in alphabetical order
LnsFieldOrder == <<FieldW, FieldZ, FieldV, FieldX, FieldY>>

MaxArity == 2

\* the predicates of query q name field f
PredicateOn(q, f) == \E j \in 1..Len(q.predicates) : q.predicates[j][1] = f

\* f appears in a predicate of a query of the workload on collection col
PredicateAppearing(col, f) ==
    \E p \in Positions(cm.workload) :
        LET q == QueryAt(cm.workload, p) IN q.collection = col /\ PredicateOn(q, f)

\* the candidate space without the rejection of keys that begin with "$"
CandidateFieldsUnfiltered(col) ==
    SelectSeq(LnsFieldOrder,
              LAMBDA f : /\ f \in DOMAIN cm.stats[col].fields
                         /\ cm.stats[col].fields[f].query_use_count > 0)

\* 4.3: fields with non-zero query_use_count; keys beginning with "$" are
\* rejected here
CandidateFields(col) ==
    SelectSeq(LnsFieldOrder,
              LAMBDA f : /\ f \in DOMAIN cm.stats[col].fields
                         /\ cm.stats[col].fields[f].query_use_count > 0
                         /\ ~StartsWithDollar(f))

\* the tuples of k distinct fields of fs, in enumeration order
RECURSIVE TuplesOfArity(_, _)
TuplesOfArity(fs, k) ==
    IF k = 1 THEN [ i \in 1..Len(fs) |-> <<fs[i]>> ]
    ELSE LET prev == TuplesOfArity(fs, k - 1)
             n    == Len(fs)
             all  == [ m \in 1..(Len(prev) * n) |->
                         Append(prev[((m - 1) \div n) + 1], fs[((m - 1) % n) + 1]) ]
         IN  SelectSeq(all, LAMBDA t : \A i \in 1..(k - 1) : t[i] # t[k])

\* the tuples of arity 1 to k over the fields fs
RECURSIVE FieldTuples(_, _)
FieldTuples(fs, k) ==
    IF k = 0 THEN <<>> ELSE FieldTuples(fs, k - 1) \o TuplesOfArity(fs, k)

\* 4.3 shard_keys[c]
shardKeys(col) == FieldTuples(CandidateFields(col), MaxArity)

\* 4.3 index_keys[c]: similar, filtered to predicate-appearing fields
indexKeys(col) ==
    FieldTuples(SelectSeq(CandidateFields(col), LAMBDA f : PredicateAppearing(col, f)), MaxArity)

\* 4.3 parents[c]: the collections whose query directly precedes a query on
\* c in a session; none is always included
parents(col) ==
    <<"None">> \o
    SelectSeq(<<"A", "B">>,
              LAMBDA other :
                  /\ other # col
                  /\ \E p \in Positions(cm.workload) :
                        /\ p[2] > 1
                        /\ QueryAt(cm.workload, p).collection = col
                        /\ QueryAt(cm.workload, <<p[1], p[2] - 1>>).collection = other)

\* 4.3 get_candidates, for one collection: the product of the shard keys,
\* the index sets (no index or one index) and the parents
getCandidates(col) ==
    LET sk == shardKeys(col)
        ix == <<{}>> \o [ i \in 1..Len(indexKeys(col)) |-> { indexKeys(col)[i] } ]
        pr == parents(col)
        a  == Len(sk)
        b  == Len(ix)
        c  == Len(pr)
    IN  [ m \in 1..(a * b * c) |->
            [ shardKey |-> sk[((m - 1) \div (b * c)) + 1],
              indexes  |-> ix[(((m - 1) \div c) % b) + 1],
              parent   |-> pr[((m - 1) % c) + 1] ] ]

\* 3, invariants of a design: the embedding relation is acyclic
ValidDesign(d) ==
    \A col \in d.cols :
        /\ d.parent[col] # col
        /\ d.parent[col] # "None" => d.parent[d.parent[col]] # col

\* clone(), set_shard_key, add_index, set_parent for one collection
Assign(d, col, cand) ==
    [ d EXCEPT !.shardKeys[col] = cand.shardKey,
               !.indexes[col]   = cand.indexes,
               !.parent[col]    = cand.parent ]

\* f is used more often than g in the queries on col; ties go to the field
\* that comes first in the alphabet
UsedMore(col, f, g) ==
    cm.stats[col].fields[f].query_use_count > cm.stats[col].fields[g].query_use_count

\* 4.5: shard key = the single field with the highest query_use_count,
\* index set = empty, embedding parent = none
InitialShardKey(col) ==
    LET fs == CandidateFields(col)
    IN  IF Len(fs) = 0 THEN <<>>
        ELSE LET i == CHOOSE i \in 1..Len(fs) :
                         \A j \in 1..Len(fs) :
                             /\ ~UsedMore(col, fs[j], fs[i])
                             /\ j < i => UsedMore(col, fs[i], fs[j])
             IN  <<fs[i]>>

InitialDesigner ==
    [ cols      |-> Collections,
      shardKeys |-> [ col \in Collections |-> InitialShardKey(col) ],
      indexes   |-> [ col \in Collections |-> {} ],
      parent    |-> [ col \in Collections |-> "None" ] ]

\* F applied to the value of x, which is worked out once
With(x, F(_)) == CHOOSE res \in { F(v) : v \in {x} } : TRUE

\* v < w and v <= w for two costs
VLt(v, w) == RLt(v.tera, w.tera) \/ (v.tera = w.tera /\ RLt(v.unit, w.unit))
VLeq(v, w) == v = w \/ VLt(v, w)

\* the comparison with the bound turned around
ImprovesInverted(cost, U) == ~VLt(cost, U)

\* 4.6 "if cost >= U -> prune", 4.7 "a design with cost < U_best": the
\* comparison of a cost with the bound
Improves(cost, U) == VLt(cost, U)

\* 4.6: the relaxed collections in the order of descending workload share
BBOrder(R) ==
    LET pairs == SortedPairs({ <<cm.stats[col].workload_percent, col>> : col \in R })
    IN  [ i \in 1..Len(pairs) |-> pairs[i][2] ]

\* 4.6: st = [design, cost, U, rg, found].  A node costs its design with
\* the collections not yet assigned as they are in the incumbent; it is cut
\* when the cost does not improve on U; with every relaxed collection
\* assigned it becomes the best design so far and U its cost; otherwise it
\* branches on the next collection, over its candidates in their order.
\* BBBranch tries the candidates lo..hi of collection order[i] one after
\* the other, the first half before the second.
RECURSIVE BBNode(_, _, _, _), BBBranch(_, _, _, _, _, _)
BBNode(d, order, i, st0) ==
    With(st0, LAMBDA st :
    With(overallCost(d, st.rg), LAMBDA r :
        IF ~Improves(r.value, st.U) THEN [ st EXCEPT !.rg = r.rg ]
        ELSE IF i = Len(order)
        THEN [ design |-> d, cost |-> r.value, U |-> r.value, rg |-> r.rg, found |-> TRUE ]
        ELSE BBBranch(d, order, i + 1, 1, Len(getCandidates(order[i + 1])),
                      [ st EXCEPT !.rg = r.rg ])))

BBBranch(d, order, i, lo, hi, st0) ==
    With(st0, LAMBDA st :
        IF lo > hi THEN st
        ELSE IF lo = hi
        THEN With(Assign(d, order[i], getCandidates(order[i])[lo]), LAMBDA d2 :
                 IF ValidDesign(d2) THEN BBNode(d2, order, i, st) ELSE st)
        ELSE BBBranch(d, order, i, ((lo + hi) \div 2) + 1, hi,
                      BBBranch(d, order, i, lo, (lo + hi) \div 2, st)))

\* 4.6: the search from the incumbent d with the collections R relaxed and
\* the upper bound U; the incumbent itself, whose cost is U, is not costed
\* again
bbsearch(d, R, U, rg) ==
    BBBranch(d, BBOrder(R), 1, 1, Len(getCandidates(BBOrder(R)[1])),
             [ design |-> d, cost |-> U, U |-> U, rg |-> rg, found |-> FALSE ])

MaxLnsSessions == 2
MaxIterations == 3
PlateauThreshold == 1

LnsFieldStats(sel, uses) == [ selectivity |-> sel, query_use_count |-> uses ]

\* the catalog: in A the field $z and in B the field $w are used by queries,
\* and v is used by none; usesY sets y before or behind x in A
LnsStats(usesY) ==
    [ col \in Collections |->
        [ tuple_count      |-> 100,
          avg_doc_size     |-> 1,
          max_pages        |-> 10,
          workload_percent |-> Frac(1, 2),
          fields           |->
              IF col = "A"
              THEN (FieldX :> LnsFieldStats(Frac(1, 8), 3)) @@
                   (FieldY :> LnsFieldStats(Frac(1, 2), usesY)) @@
                   (FieldZ :> LnsFieldStats(Rat(1), 5))
              ELSE (FieldX :> LnsFieldStats(Frac(1, 2), 2)) @@
                   (FieldV :> LnsFieldStats(Rat(1), 0)) @@
                   (FieldW :> LnsFieldStats(Rat(1), 1)) ] ]

LnsBodies ==
    { << Query("A", "select", << <<FieldX, "equality">> >>) >>,
      << Query("A", "select", << <<FieldY, "equality">> >>),
         Query("B", "select", << <<FieldX, "equality">> >>) >>,
      << Query("A", "select", << <<FieldZ, "equality">> >>),
         Query("B", "update", << <<FieldX, "range">> >>) >>,
      << Query("B", "insert", <<>>),
         Query("A", "select", << <<FieldX, "range">>, <<FieldY, "equality">> >>) >> }

LnsWorkloads ==
    UNION { { Timed(bodies, 1) : bodies \in SeqsOfLen(LnsBodies, n) } : n \in 1..MaxLnsSessions }

\* cmConfig of the test, with the memory and the nodes of the other
\* specifications
LnsConfig ==
    [ weight_network |-> 4, weight_disk |-> 1, weight_skew |-> 1, nodes |-> 4,
      max_memory |-> 1, address_size |-> 64, skew_intervals |-> 3 ]

InitLNS ==
    /\ \E w \in LnsWorkloads, usesY \in {1, 4} :
          cm = CostModelInit(w, LnsConfig, LnsStats(usesY))
    /\ randints = <<>>
    /\ design = NoDesign
    /\ call = "init"
    /\ ret = Rat(0)
    /\ lns = LnsIdle

\* initialDesign = InitialDesigner(...).generate()
\* upper_bound = cm.overallCost(initialDesign)
\* ln = LNSDesigner(..., cm, initialDesign, upper_bound, LNS_RUN_TIME)
Setup ==
    /\ lns.pc = "idle"
    /\ \E r \in { overallCost(InitialDesigner, cm.rg) } :
          /\ r.rg <= Len(randints)
          /\ design' = InitialDesigner
          /\ cm' = [ cm EXCEPT !.rg = r.rg ]
          /\ call' = "setup"
          /\ ret' = r.value
          /\ lns' = [ pc |-> "solve", U0 |-> r.value, U_best |-> r.value,
                      k |-> 1, plateau |-> 0, iterations |-> 0 ]
    /\ UNCHANGED randints

\* 4.7, one turn of the main loop with the sample R of k collections
Iterate(R) ==
    /\ lns.pc = "solve"
    /\ lns.iterations < MaxIterations
    /\ Cardinality(R) = lns.k
    /\ \E bb \in { bbsearch(design, R, lns.U_best, cm.rg) } :
          /\ bb.rg <= Len(randints)
          /\ cm' = [ cm EXCEPT !.rg = bb.rg ]
          /\ call' = "iterate"
          /\ ret' = bb.cost
          /\ IF Improves(bb.cost, lns.U_best)
             THEN /\ design' = bb.design
                  /\ lns' = [ lns EXCEPT !.U_best = bb.cost, !.plateau = 0,
                                         !.iterations = @ + 1 ]
             ELSE /\ design' = design
                  /\ lns' = [ lns EXCEPT !.plateau = @ + 1,
                                         !.iterations = @ + 1,
                                         !.k = IF lns.plateau + 1 > PlateauThreshold
                                                  /\ @ < Cardinality(design.cols)
                                               THEN @ + 1 ELSE @ ]
    /\ UNCHANGED randints

\* 4.7, terminal state: the timer fires and solve returns D_best
TimerFires ==
    /\ lns.pc = "solve"
    /\ lns' = [ lns EXCEPT !.pc = "returned" ]
    /\ call' = "solve"
    /\ ret' = lns.U_best
    /\ UNCHANGED <<cm, design, randints>>

\* 5, cancellation between two descents returns the incumbent unchanged
Cancel ==
    /\ lns.pc = "solve"
    /\ lns' = [ lns EXCEPT !.pc = "cancelled" ]
    /\ call' = "solve"
    /\ ret' = lns.U_best
    /\ UNCHANGED <<cm, design, randints>>

NextLNS ==
    \/ Setup
    \/ \E R \in SUBSET Collections : Iterate(R)
    \/ TimerFires
    \/ Cancel

SpecLNS == InitLNS /\ [][NextLNS]_vars

\* C3: in every state of the solve loop the incumbent cost U_best is at
\* most the seed cost U0, no step of the loop raises U_best, and the cost
\* of the design that solve returns, at the deadline or on cancellation, is
\* at most the seed's cost.
C3_MonotonicImprovement ==
    /\ [](lns.pc # "idle" => VLeq(lns.U_best, lns.U0))
    /\ [][lns.pc # "idle" => VLeq(lns'.U_best, lns.U_best)]_vars
    /\ [](lns.pc \in {"returned", "cancelled"} => ret = lns.U_best /\ VLeq(ret, lns.U0))

C3_Witness ==
    /\ lns.pc = "returned"
    /\ lns.iterations = MaxIterations
    /\ lns.k = 2
    /\ VLt(lns.U_best, lns.U0)
    /\ design # InitialDesigner

NoDollarKey(keys) == \A i \in 1..Len(keys) : ~StartsWithDollar(keys[i])

\* C8: no key of a candidate index tuple or candidate shard key of any
\* collection begins with "$", and no shard-key field or index field of a
\* design produced by the initial designer, BB or LNS begins with "$".
C8_CandidatePurity ==
    \A col \in Collections :
        /\ \A i \in 1..Len(shardKeys(col)) : NoDollarKey(shardKeys(col)[i])
        /\ \A i \in 1..Len(indexKeys(col)) : NoDollarKey(indexKeys(col)[i])
        /\ lns.pc # "idle" =>
              /\ NoDollarKey(design.shardKeys[col])
              /\ \A keys \in design.indexes[col] : NoDollarKey(keys)

C8_Witness ==
    /\ lns.pc = "cancelled"
    /\ PredicateAppearing("A", FieldZ)
    /\ cm.stats["A"].fields[FieldZ].query_use_count > cm.stats["A"].fields[FieldX].query_use_count
    /\ design # InitialDesigner
    /\ design.shardKeys["A"] = <<FieldY>>
    /\ Len(indexKeys("B")) > 0

====
